---- MODULE Spec2Model ----
(***************************************************************************)
(* Enhanced Tag Switcher (src/main.ts): a click on a tag opens a picker    *)
(* over the vault's tags, ranked by recency; the chosen tag replaces the   *)
(* clicked one and is recorded in the persisted recency list.              *)
(*                                                                         *)
(* Strings are sequences of one-character strings; columns are 0-based as  *)
(* in the editor API, so column c of a line is line[c + 1].                *)
(***************************************************************************)
EXTENDS Integers, Sequences, FiniteSets, TLC

(***************************************************************************)
(* Characters                                                              *)
(***************************************************************************)
LowerLetters ==
    <<"a","b","c","d","e","f","g","h","i","j","k","l","m",
      "n","o","p","q","r","s","t","u","v","w","x","y","z">>

UpperLetters ==
    <<"A","B","C","D","E","F","G","H","I","J","K","L","M",
      "N","O","P","Q","R","S","T","U","V","W","X","Y","Z">>

Digits == <<"0","1","2","3","4","5","6","7","8","9">>

Range(s) == { s[i] : i \in 1..Len(s) }

\* \w of a JavaScript regular expression without the u flag: [A-Za-z0-9_]
WordChars == Range(LowerLetters) \cup Range(UpperLetters) \cup Range(Digits) \cup {"_"}

\* the character class [\w\/-] of both tag patterns
TagChars == WordChars \cup {"/", "-"}

\* String.prototype.toLowerCase, one character
LowerOf ==
    [c \in Range(UpperLetters) |->
        LowerLetters[CHOOSE i \in 1..Len(UpperLetters) : UpperLetters[i] = c]]

ToLowerChar(c) == IF c \in DOMAIN LowerOf THEN LowerOf[c] ELSE c

\* String.prototype.toLowerCase
toLowerCase(s) == [i \in 1..Len(s) |-> ToLowerChar(s[i])]

(***************************************************************************)
(* String primitives of the host language                                  *)
(***************************************************************************)
\* s.startsWith(p)
startsWith(s, p) == Len(p) <= Len(s) /\ SubSeq(s, 1, Len(p)) = p

\* whether pat occurs in s at 0-based position i
OccursAt(s, pat, i) ==
    /\ i >= 0
    /\ i + Len(pat) <= Len(s)
    /\ SubSeq(s, i + 1, i + Len(pat)) = pat

\* s.indexOf(pat, from): the first 0-based position >= from where pat occurs, or -1
RECURSIVE indexOf(_, _, _)
indexOf(s, pat, from) ==
    IF from + Len(pat) > Len(s) THEN -1
    ELSE IF OccursAt(s, pat, from) THEN from
    ELSE indexOf(s, pat, from + 1)

\* s.includes(pat)
includes(s, pat) == indexOf(s, pat, 0) # -1

\* arr.includes(x), arr.indexOf(x) on arrays (0-based, -1 when absent)
RECURSIVE arrayIndexOfFrom(_, _, _)
arrayIndexOfFrom(arr, x, i) ==
    IF i > Len(arr) THEN -1
    ELSE IF arr[i] = x THEN i - 1
    ELSE arrayIndexOfFrom(arr, x, i + 1)

arrayIndexOf(arr, x) == arrayIndexOfFrom(arr, x, 1)

arrayIncludes(arr, x) == arrayIndexOf(arr, x) # -1

\* arr.slice().reverse()
reverse(arr) == [i \in 1..Len(arr) |-> arr[Len(arr) + 1 - i]]

\* arr.splice(i, 1) for a 0-based index i
spliceOne(arr, i) == SubSeq(arr, 1, i) \o SubSeq(arr, i + 2, Len(arr))

(***************************************************************************)
(* The two regular expressions of handleTagClick                           *)
(***************************************************************************)
\* the end (exclusive, 0-based) of the greedy run of tag characters that
\* starts at 0-based position p
RECURSIVE RunEnd(_, _)
RunEnd(line, p) ==
    IF p < Len(line) /\ line[p + 1] \in TagChars THEN RunEnd(line, p + 1) ELSE p

\* line.match(/#[\w\/-]+/g): the matched texts, left to right; the empty
\* sequence stands for the null the host language returns when nothing matches
RECURSIVE MatchAllFrom(_, _)
MatchAllFrom(line, p) ==
    IF p >= Len(line) THEN << >>
    ELSE IF line[p + 1] = "#" /\ RunEnd(line, p + 1) > p + 1
         THEN <<SubSeq(line, p + 1, RunEnd(line, p + 1))>>
                 \o MatchAllFrom(line, RunEnd(line, p + 1))
         ELSE MatchAllFrom(line, p + 1)

MatchAll(line) == MatchAllFrom(line, 0)

\* line.match(/#[\w\/-]*/): the first match as [index, text], or NoMatch
NoMatch == [index |-> -1, text |-> << >>]

MatchPartial(line) ==
    LET i == indexOf(line, <<"#">>, 0)
    IN  IF i = -1 THEN NoMatch
        ELSE [index |-> i, text |-> SubSeq(line, i + 1, RunEnd(line, i + 1))]

(***************************************************************************)
(* Tag Locator: the span computation of handleTagClick                     *)
(***************************************************************************)
NoSpan == [from |-> -1, to |-> -1]

\* where the search for the next matched text starts once a match that does
\* not hold the cursor has been passed (searchFrom = tagEndPos)
NoAdvance(tagEndPos, searchFrom) == searchFrom

NextSearchFrom(tagEndPos, searchFrom) == tagEndPos

\* the for loop over tagMatch: k is the loop position, ch the cursor column
RECURSIVE FindClickedTag(_, _, _, _, _)
FindClickedTag(line, tagMatch, k, searchFrom, ch) ==
    IF k > Len(tagMatch) THEN NoSpan
    ELSE LET tag      == tagMatch[k]
             tagIndex == indexOf(line, tag, searchFrom)
             tagEndPos == tagIndex + Len(tag)
         IN  IF tagIndex # -1
             THEN IF ch >= tagIndex /\ ch <= tagEndPos
                  THEN [from |-> tagIndex, to |-> tagEndPos]
                  ELSE FindClickedTag(line, tagMatch, k + 1,
                                      NextSearchFrom(tagEndPos, searchFrom), ch)
             ELSE FindClickedTag(line, tagMatch, k + 1, searchFrom, ch)

\* the else branch of handleTagClick: the first partial match, wherever the
\* cursor is
FallbackSpan(line) ==
    LET match == MatchPartial(line)
    IN  IF match # NoMatch
        THEN [from |-> match.index, to |-> match.index + Len(match.text)]
        ELSE NoSpan

\* the span handleTagClick opens the picker on, or NoSpan when it opens none
LocateAlways(line, ch) ==
    LET tagMatch == MatchAll(line)
        found    == FindClickedTag(line, tagMatch, 1, 0, ch)
    IN  IF found # NoSpan THEN found ELSE FallbackSpan(line)

Locate(line, ch) ==
    LET tagMatch == MatchAll(line)
    IN  IF tagMatch # << >>
        THEN FindClickedTag(line, tagMatch, 1, 0, ch)
        ELSE FallbackSpan(line)

(***************************************************************************)
(* Tag Catalog Builder: loadAllTags                                        *)
(***************************************************************************)
CLEAR_TAG == <<"C","L","E","A","R","_","T","A","G">>

\* tag.startsWith('#') ? tag : `#${tag}`
WithHash(tag) == IF startsWith(tag, <<"#">>) THEN tag ELSE <<"#">> \o tag

\* a.localeCompare(b) in the root collation: first the texts compared letter
\* by letter without case (punctuation before digits before letters), then,
\* if that ties, lower case before upper case at the first difference
CollationOrder == <<"_", "-", "/", "#">> \o Digits \o LowerLetters

RankOf ==
    [c \in Range(CollationOrder) |->
        CHOOSE i \in 1..Len(CollationOrder) : CollationOrder[i] = c]

CollationRank(c) == RankOf[ToLowerChar(c)]

RECURSIVE ComparePrimary(_, _, _)
ComparePrimary(a, b, i) ==
    IF i > Len(a) /\ i > Len(b) THEN 0
    ELSE IF i > Len(a) THEN -1
    ELSE IF i > Len(b) THEN 1
    ELSE IF CollationRank(a[i]) < CollationRank(b[i]) THEN -1
    ELSE IF CollationRank(a[i]) > CollationRank(b[i]) THEN 1
    ELSE ComparePrimary(a, b, i + 1)

RECURSIVE CompareCase(_, _, _)
CompareCase(a, b, i) ==
    IF i > Len(a) THEN 0
    ELSE IF a[i] = b[i] THEN CompareCase(a, b, i + 1)
    ELSE IF a[i] = ToLowerChar(a[i]) THEN -1 ELSE 1

localeCompare(a, b) ==
    LET primary == ComparePrimary(a, b, 1)
    IN  IF primary # 0 THEN primary ELSE CompareCase(a, b, 1)

\* Array.prototype.sort((a, b) => a.localeCompare(b)), a stable sort: the
\* element at i goes behind the elements that compare smaller and behind the
\* equal ones that stood before it
SortedPosition(arr, i) ==
    1 + Cardinality({ k \in 1..Len(arr) :
                        \/ localeCompare(arr[k], arr[i]) < 0
                        \/ (localeCompare(arr[k], arr[i]) = 0 /\ k < i) })

Placed(arr, position) ==
    [p \in 1..Len(arr) |-> arr[CHOOSE i \in 1..Len(arr) : position[i] = p]]

sortByLocale(arr) ==
    CHOOSE sorted \in
        { Placed(arr, position) :
            position \in { [i \in 1..Len(arr) |-> SortedPosition(arr, i)] } } : TRUE

\* the recent tags as the catalog lists them: most recent first
MostRecentLast(recent) == recent

MostRecentFirst(recent) == reverse(recent)

\* loadAllTags: vaultKeys are the keys of metadataCache.getTags(), in the
\* object's key order; recent is settings.recentlyChosenTags
loadAllTags(vaultKeys, recent) ==
    LET allVaultTags    == [i \in 1..Len(vaultKeys) |-> WithHash(vaultKeys[i])]
        recentTags      == MostRecentFirst(recent)
        vaultTagSet     == Range(allVaultTags)
        InVault(tag)    == tag \in vaultTagSet
        validRecentTags == SelectSeq(recentTags, InVault)
        NotRecent(tag)  == ~arrayIncludes(validRecentTags, tag)
        remainingTags   == sortByLocale(SelectSeq(allVaultTags, NotRecent))
    IN  <<CLEAR_TAG>> \o validRecentTags \o remainingTags

(***************************************************************************)
(* Suggestion Filter: getSuggestions                                       *)
(***************************************************************************)
Keywords ==
    { <<"c","l","e","a","r">>,
      <<"r","e","m","o","v","e">>,
      <<"d","e","l","e","t","e">> }

\* 'clear'.includes(q) || 'remove'.includes(q) || 'delete'.includes(q)
KeywordContainsQuery(queryLower) == \E w \in Keywords : includes(queryLower, w)

QueryInKeyword(queryLower) == \E w \in Keywords : includes(w, queryLower)

getSuggestions(allTags, query) ==
    LET queryLower == toLowerCase(query)
        Matches(tag) == tag # CLEAR_TAG /\ includes(toLowerCase(tag), queryLower)
        filteredTags == SelectSeq(allTags, Matches)
    IN  IF query = << >> THEN allTags
        ELSE IF QueryInKeyword(queryLower) THEN <<CLEAR_TAG>> \o filteredTags
        ELSE filteredTags

(***************************************************************************)
(* Replacement Applier: the editor call and the recency update             *)
(***************************************************************************)
\* editor.replaceRange(text, from, to) on the cursor's line
replaceRange(line, text, from, to) ==
    SubSeq(line, 1, from) \o text \o SubSeq(line, to + 1, Len(line))

\* the cap of updateRecentlyChosenTags
MaxRecent == 20

\* updateRecentlyChosenTags without the cap
UpdateWithoutCap(recentTags, tag) ==
    LET existingIndex == arrayIndexOf(recentTags, tag)
        removed == IF existingIndex > -1 THEN spliceOne(recentTags, existingIndex)
                   ELSE recentTags
    IN  Append(removed, tag)

\* updateRecentlyChosenTags, the list it leaves in settings
updateRecentlyChosenTags(recentTags, tag) ==
    LET existingIndex == arrayIndexOf(recentTags, tag)
        removed == IF existingIndex > -1 THEN spliceOne(recentTags, existingIndex)
                   ELSE recentTags
        pushed  == Append(removed, tag)
    IN  IF Len(pushed) > MaxRecent THEN Tail(pushed) ELSE pushed

(***************************************************************************)
(* State                                                                   *)
(***************************************************************************)
VARIABLES
    line,                \* editor.getLine(cursor.line): the text of the cursor's line
    cursor,              \* editor.getCursor().ch
    activeView,          \* whether getActiveViewOfType(MarkdownView) returns a view
    evt,                 \* the last click event: what its target was, what was done to it
    modalOpen,           \* whether a TagSelectorModal is open
    tagPosition,         \* TagSelectorModal.tagPosition, as [from, to] columns
    allTags,             \* TagSelectorModal.allTags
    query,               \* the text typed in the picker
    suggestions,         \* what getSuggestions returned for query
    recentlyChosenTags,  \* settings.recentlyChosenTags, oldest first
    beforeLastUpdate,    \* recentlyChosenTags as it was before its latest update
    persisted,           \* recentlyChosenTags as the settings store holds it
    pendingSaves,        \* the saveData calls in flight, oldest first
    vaultKeys,           \* the keys of metadataCache.getTags()
    budget               \* recency updates still explored

vars ==
    <<line, cursor, activeView, evt, modalOpen, tagPosition, allTags, query,
      suggestions, recentlyChosenTags, beforeLastUpdate, persisted, pendingSaves,
      vaultKeys, budget>>

editorVars == <<line, cursor>>

modalVars == <<modalOpen, tagPosition, allTags, query, suggestions>>

storeVars == <<recentlyChosenTags, beforeLastUpdate, persisted, pendingSaves, budget>>

(***************************************************************************)
(* The click listener of onload                                            *)
(***************************************************************************)
NoHref == [present |-> FALSE, value |-> << >>]

Href(text) == [present |-> TRUE, value |-> text]

\* a clicked element: class list, tag name, href attribute, data-tag
Element(classes, name, link, marked) ==
    [classList |-> classes, tagName |-> name, href |-> link, dataTag |-> marked]

\* the clicked elements: one for each way of being a tag, and three that are none
Elements ==
    { Element({"tag"}, "SPAN", NoHref, FALSE),
      Element({"cm-hashtag"}, "SPAN", NoHref, FALSE),
      Element({}, "A", Href(<<"#","a">>), FALSE),
      Element({}, "SPAN", NoHref, TRUE),
      Element({}, "SPAN", NoHref, FALSE),
      Element({}, "A", Href(<<"h","t","t","p">>), FALSE),
      Element({}, "SPAN", Href(<<"#","a">>), FALSE) }

isTagElement(element) ==
    \/ "tag" \in element.classList
    \/ "cm-hashtag" \in element.classList
    \/ (element.tagName = "A" /\ element.href.present
            /\ startsWith(element.href.value, <<"#">>))
    \/ element.dataTag

NoEvent == [tagLike |-> FALSE, defaultPrevented |-> FALSE]

\* whether the listener calls preventDefault and stopPropagation on a click
\* on a tag-like element
Prevented(hasView) == TRUE

\* new TagSelectorModal(app, editor, tagPosition, plugin).open()
OpenModal(span) ==
    /\ modalOpen' = TRUE
    /\ tagPosition' = span
    /\ allTags' = loadAllTags(vaultKeys, recentlyChosenTags)
    /\ query' = << >>
    /\ suggestions' = getSuggestions(allTags', << >>)

CloseModal ==
    /\ modalOpen' = FALSE
    /\ tagPosition' = NoSpan
    /\ allTags' = << >>
    /\ query' = << >>
    /\ suggestions' = << >>

handleTagClick ==
    IF ~activeView THEN UNCHANGED modalVars
    ELSE LET span == Locate(line, cursor)
         IN  IF span # NoSpan THEN OpenModal(span) ELSE UNCHANGED modalVars

\* a click on element while no picker is open
DomClick(element) ==
    /\ ~modalOpen
    /\ IF isTagElement(element)
       THEN /\ evt' = [tagLike |-> TRUE, defaultPrevented |-> Prevented(activeView)]
            /\ handleTagClick
       ELSE /\ evt' = [tagLike |-> FALSE, defaultPrevented |-> FALSE]
            /\ UNCHANGED modalVars
    /\ UNCHANGED <<editorVars, activeView, storeVars, vaultKeys>>

\* the user puts the cursor somewhere in the line
MoveCursor(ch) ==
    /\ ~modalOpen
    /\ activeView
    /\ ch # cursor
    /\ cursor' = ch
    /\ UNCHANGED <<line, activeView, evt, modalVars, storeVars, vaultKeys>>

\* the user switches between the editor and a view that is no editor
SwitchView ==
    /\ ~modalOpen
    /\ activeView' = ~activeView
    /\ UNCHANGED <<editorVars, evt, modalVars, storeVars, vaultKeys>>

(***************************************************************************)
(* The picker                                                              *)
(***************************************************************************)
\* the user types q
TypeQuery(q) ==
    /\ modalOpen
    /\ q # query
    /\ query' = q
    /\ suggestions' = getSuggestions(allTags, q)
    /\ UNCHANGED <<editorVars, activeView, evt, modalOpen, tagPosition, allTags,
                   storeVars, vaultKeys>>

\* Escape
Dismiss ==
    /\ modalOpen
    /\ CloseModal
    /\ UNCHANGED <<editorVars, activeView, evt, storeVars, vaultKeys>>

\* saveSettings(): saveData(this.settings) is put in flight with the settings
\* as they are at the call
saveSkipped(pending, settings) == pending

saveSettings(pending, settings) == Append(pending, settings)

\* the line the CLEAR_TAG branch leaves
ClearedKeepingHash(text, pos) == replaceRange(text, <<"#">>, pos.from, pos.to)

ClearedLine(text, pos) == replaceRange(text, << >>, pos.from, pos.to)

\* the column the cursor is put at after a replacement by tag
CursorBeforeTag(pos, tag) == pos.from

CursorAfterTag(pos, tag) == pos.from + Len(tag)

\* what the CLEAR_TAG branch of onChooseSuggestion does to the recency list
RecentAfterClearUpdated(recentTags, pos) == << >>

RecentAfterClear(recentTags, pos) == recentTags

\* onChooseSuggestion(tag) for the i-th suggestion; the picker closes
onChooseSuggestion(i) ==
    LET tag == suggestions[i]
    IN  /\ modalOpen
        /\ i \in 1..Len(suggestions)
        /\ CloseModal
        /\ IF tag = CLEAR_TAG
           THEN /\ line' = ClearedLine(line, tagPosition)
                /\ cursor' = tagPosition.from
                /\ recentlyChosenTags' = RecentAfterClear(recentlyChosenTags, tagPosition)
                /\ UNCHANGED <<beforeLastUpdate, persisted, pendingSaves, budget>>
           ELSE /\ budget > 0
                /\ line' = replaceRange(line, tag, tagPosition.from, tagPosition.to)
                /\ cursor' = CursorAfterTag(tagPosition, tag)
                /\ recentlyChosenTags' = updateRecentlyChosenTags(recentlyChosenTags, tag)
                /\ beforeLastUpdate' = recentlyChosenTags
                /\ pendingSaves' = saveSettings(pendingSaves, recentlyChosenTags')
                /\ budget' = budget - 1
                /\ UNCHANGED persisted
        /\ UNCHANGED <<activeView, evt, vaultKeys>>

\* onChooseSuggestion(tag) when the editor rejects replaceRange: the call
\* throws and nothing after it runs
onChooseSuggestionRejected(i) ==
    /\ modalOpen
    /\ i \in 1..Len(suggestions)
    /\ CloseModal
    /\ UNCHANGED <<editorVars, activeView, evt, storeVars, vaultKeys>>

(***************************************************************************)
(* The settings store and the settings tab                                 *)
(***************************************************************************)
\* the oldest saveData call in flight completes
SaveComplete ==
    /\ pendingSaves # << >>
    /\ persisted' = Head(pendingSaves)
    /\ pendingSaves' = Tail(pendingSaves)
    /\ UNCHANGED <<editorVars, activeView, evt, modalVars, recentlyChosenTags,
                   beforeLastUpdate, budget, vaultKeys>>

\* the button 'Clear recently used tags'
ClearRecentButton ==
    /\ ~modalOpen
    /\ budget > 0
    /\ recentlyChosenTags' = << >>
    /\ beforeLastUpdate' = recentlyChosenTags
    /\ pendingSaves' = saveSettings(pendingSaves, recentlyChosenTags')
    /\ budget' = budget - 1
    /\ UNCHANGED <<editorVars, activeView, evt, modalVars, persisted, vaultKeys>>

(***************************************************************************)
(* Texts of the scenarios                                                  *)
(***************************************************************************)
TagTodo == <<"#","t","o","d","o">>

TagDone == <<"#","d","o","n","e">>

TagProjectAlpha == <<"#","p","r","o","j","e","c","t","/","a","l","p","h","a">>

\* "See #project/alpha and #todo"
LineSee == <<"S","e","e"," ">> \o TagProjectAlpha \o <<" ","a","n","d"," ">> \o TagTodo

\* "x #todo y"
LineX == <<"x"," ">> \o TagTodo \o <<" ","y">>

\* "See #done and #todo"
LineSeeDone == <<"S","e","e"," ">> \o TagDone \o <<" ","a","n","d"," ">> \o TagTodo

\* "x  y"
LineXCleared == <<"x"," "," ","y">>

QueryDel == <<"d","e","l">>

(***************************************************************************)
(* The plugin in use: clicks, the picker, the settings store               *)
(***************************************************************************)
\* recency updates explored from the first run
MaxUpdates == 3

MainVault == <<TagTodo, TagDone>>

MainQueries == { << >>, QueryDel, <<"D","O">> }

\* onload on a first run: loadSettings leaves DEFAULT_SETTINGS, nothing is open
InitPlugin ==
    /\ activeView = TRUE
    /\ evt = NoEvent
    /\ modalOpen = FALSE
    /\ tagPosition = NoSpan
    /\ allTags = << >>
    /\ query = << >>
    /\ suggestions = << >>
    /\ recentlyChosenTags = << >>
    /\ beforeLastUpdate = << >>
    /\ persisted = << >>
    /\ pendingSaves = << >>

Init ==
    /\ InitPlugin
    /\ line = LineX
    /\ cursor = 0
    /\ vaultKeys = MainVault
    /\ budget = MaxUpdates

Next ==
    \/ \E element \in Elements : DomClick(element)
    \/ \E ch \in 0..Len(line) : MoveCursor(ch)
    \/ SwitchView
    \/ \E q \in MainQueries : TypeQuery(q)
    \/ Dismiss
    \/ \E i \in 1..Len(suggestions) : onChooseSuggestion(i)
    \/ \E i \in 1..Len(suggestions) : onChooseSuggestionRejected(i)
    \/ SaveComplete
    \/ ClearRecentButton

Spec == Init /\ [][Next]_vars

(***************************************************************************)
(* The scenario of the line "See #project/alpha and #todo"                 *)
(***************************************************************************)
ScenarioVault == <<TagTodo, TagProjectAlpha, TagDone>>

InitScenario ==
    /\ InitPlugin
    /\ line = LineSee
    /\ cursor = 6
    /\ vaultKeys = ScenarioVault
    /\ budget = MaxUpdates

NextScenario ==
    \/ \E element \in Elements : DomClick(element)
    \/ \E q \in MainQueries : TypeQuery(q)
    \/ Dismiss
    \/ \E i \in 1..Len(suggestions) : onChooseSuggestion(i)
    \/ SaveComplete

SpecScenario == InitScenario /\ [][NextScenario]_vars

(***************************************************************************)
(* The Tag Locator on every short line                                     *)
(***************************************************************************)
\* the longest line the locator is tried on
MaxLineLen == 5

\* the marker, two tag characters and a character that ends a tag
LocateAlphabet == {"#", "a", "b", " "}

LocateLines == UNION { [1..n -> LocateAlphabet] : n \in 0..MaxLineLen }

InitLocate ==
    /\ InitPlugin
    /\ line \in LocateLines
    /\ cursor \in 0..Len(line)
    /\ vaultKeys = MainVault
    /\ budget = 0

NextLocate == \E element \in Elements : DomClick(element)

SpecLocate == InitLocate /\ [][NextLocate]_vars

(***************************************************************************)
(* The picker on every small vault and recency list                        *)
(***************************************************************************)
PickerTags == { <<"#","a">>, <<"#","b">>, <<"#","c">>, <<"#","R","e">> }

\* the sequences over S without repetition
DuplicateFree(S) ==
    { q \in UNION { [1..n -> S] : n \in 0..Cardinality(S) } :
        \A i, j \in 1..Len(q) : i # j => q[i] # q[j] }

PickerQueries ==
    { << >>, QueryDel, <<"c","l">>, <<"e">>, <<"B">>, <<"#">>, <<"r","e">>,
      <<"x">>, <<"c","l","e","a","r","s">>, <<"R","E","M","O","V","E">> }

InitPicker ==
    /\ activeView = TRUE
    /\ evt = NoEvent
    /\ modalOpen = FALSE
    /\ tagPosition = NoSpan
    /\ allTags = << >>
    /\ query = << >>
    /\ suggestions = << >>
    /\ line = <<"#","a">>
    /\ cursor = 0
    /\ vaultKeys \in DuplicateFree(PickerTags)
    /\ recentlyChosenTags \in DuplicateFree(PickerTags)
    /\ beforeLastUpdate = recentlyChosenTags
    /\ persisted = recentlyChosenTags
    /\ pendingSaves = << >>
    /\ budget = 0

NextPicker ==
    \/ \E element \in Elements : DomClick(element)
    \/ \E q \in PickerQueries : TypeQuery(q)
    \/ Dismiss

SpecPicker == InitPicker /\ [][NextPicker]_vars

(***************************************************************************)
(* The recency list at its cap                                             *)
(***************************************************************************)
\* the tags of the vault: one more than the cap
NumTags == 21

\* recency updates explored from each list
RecencyUpdates == 1

RecencyTag(i) == <<"#", LowerLetters[i]>>

\* the list after RecencyTag(1) .. RecencyTag(k) were chosen in this order
ChosenInOrder(k) == [i \in 1..k |-> RecencyTag(i)]

InitRecency ==
    /\ activeView = TRUE
    /\ evt = NoEvent
    /\ modalOpen = FALSE
    /\ tagPosition = NoSpan
    /\ allTags = << >>
    /\ query = << >>
    /\ suggestions = << >>
    /\ line = RecencyTag(1)
    /\ cursor = 0
    /\ vaultKeys = [i \in 1..NumTags |-> RecencyTag(i)]
    /\ \E k \in {0, 1, MaxRecent - 1, MaxRecent} : recentlyChosenTags = ChosenInOrder(k)
    /\ beforeLastUpdate = recentlyChosenTags
    /\ persisted = recentlyChosenTags
    /\ pendingSaves = << >>
    /\ budget = RecencyUpdates

NextRecency ==
    \/ \E element \in Elements : DomClick(element)
    \/ \E i \in 1..Len(suggestions) : onChooseSuggestion(i)

SpecRecency == InitRecency /\ [][NextRecency]_vars

(***************************************************************************)
(* Properties                                                              *)
(***************************************************************************)
NoDuplicates(q) == \A i, j \in 1..Len(q) : i # j => q[i] # q[j]

\* C1: through any sequence of picker selections the recency list has at
\* most 20 entries and holds no tag twice.
C1_RecencyCappedNoDuplicates ==
    /\ Len(recentlyChosenTags) <= MaxRecent
    /\ NoDuplicates(recentlyChosenTags)

\* a full list took a tag it did not hold: the oldest entry was evicted
C1_Witness ==
    /\ budget < RecencyUpdates
    /\ Len(recentlyChosenTags) = MaxRecent
    /\ recentlyChosenTags[MaxRecent] = RecencyTag(NumTags)
    /\ recentlyChosenTags[1] = RecencyTag(2)

\* the matches of the tag pattern in text, as spans: a '#', then a run of one
\* or more tag characters that no tag character follows
FullMatches(text) ==
    { m \in [from : 0..Len(text), to : 0..Len(text)] :
        /\ m.from + 2 <= m.to
        /\ text[m.from + 1] = "#"
        /\ \A c \in (m.from + 1)..(m.to - 1) : text[c + 1] \in TagChars
        /\ (m.to = Len(text) \/ text[m.to + 1] \notin TagChars) }

MatchesAtCursor == { m \in FullMatches(line) : m.from <= cursor /\ cursor <= m.to }

\* C2: when the cursor lies within [start, end] of exactly one tag match of
\* the line, a tag click opens the picker on exactly that match's span, also
\* when the line repeats a tag text or holds a tag that is a prefix of another.
C2_LocatorReturnsContainingMatch ==
    (evt.tagLike /\ Cardinality(MatchesAtCursor) = 1)
        => (modalOpen /\ tagPosition \in MatchesAtCursor)

\* "#a #a" clicked with the cursor in the second occurrence
C2_Witness ==
    /\ evt.tagLike
    /\ line = <<"#","a"," ","#","a">>
    /\ cursor = 4
    /\ tagPosition = [from |-> 3, to |-> 5]

\* the first match of the partial pattern: the first '#' and the run of tag
\* characters behind it
FirstPartialMatches(text) ==
    { m \in [from : 0..Len(text), to : 0..Len(text)] :
        /\ m.from < m.to
        /\ text[m.from + 1] = "#"
        /\ \A c \in 0..(m.from - 1) : text[c + 1] # "#"
        /\ \A c \in (m.from + 1)..(m.to - 1) : text[c + 1] \in TagChars
        /\ (m.to = Len(text) \/ text[m.to + 1] \notin TagChars) }

\* the picker is open on the first partial match, or closed when there is none
FellBack ==
    IF FirstPartialMatches(line) = {} THEN ~modalOpen
    ELSE modalOpen /\ tagPosition \in FirstPartialMatches(line)

\* C8 as stated: whenever no full tag match holds the cursor, a tag click
\* falls back to the first partial match of the line, and opens no picker
\* only when there is none.
C8_FallbackWheneverCursorOutside ==
    (evt.tagLike /\ MatchesAtCursor = {}) => FellBack

\* C8 as amended: a tag click falls back to the first partial match only when
\* the line has no full tag match at all; when the line has full matches and
\* none holds the cursor, no picker opens.
C8_FallbackOnlyWithoutFullMatch ==
    evt.tagLike =>
        /\ FullMatches(line) = {} => FellBack
        /\ (FullMatches(line) # {} /\ MatchesAtCursor = {}) => ~modalOpen

\* "a #" clicked: the picker opens on the bare '#'
C8_Witness ==
    /\ evt.tagLike
    /\ line = <<"a"," ","#">>
    /\ modalOpen
    /\ tagPosition = [from |-> 2, to |-> 3]

\* the position of tag in q, 0 when absent
PositionIn(q, tag) ==
    IF \E i \in 1..Len(q) : q[i] = tag THEN CHOOSE i \in 1..Len(q) : q[i] = tag ELSE 0

\* the recent tags that are still vault tags
StillInVault == Range(recentlyChosenTags) \cap Range(vaultKeys)

\* C3: the catalog built when the picker opens is the CLEAR_TAG sentinel,
\* then the recent tags still in the vault, most recent first, then the other
\* vault tags in ascending order of the comparison the sort uses; no entry
\* twice, every vault tag once.
C3_CatalogOrder ==
    modalOpen =>
        LET k == Cardinality(StillInVault)
        IN  /\ Len(allTags) = 1 + Cardinality(Range(vaultKeys))
            /\ allTags[1] = CLEAR_TAG
            /\ NoDuplicates(allTags)
            /\ { allTags[i] : i \in 2..Len(allTags) } = Range(vaultKeys)
            /\ { allTags[i] : i \in 2..(k + 1) } = StillInVault
            /\ \A i, j \in 2..(k + 1) :
                  i < j => PositionIn(recentlyChosenTags, allTags[i])
                              > PositionIn(recentlyChosenTags, allTags[j])
            /\ \A i, j \in (k + 2)..Len(allTags) :
                  i < j => localeCompare(allTags[i], allTags[j]) < 0
            /\ (/\ Range(vaultKeys) = {<<"#","a">>, <<"#","b">>, <<"#","c">>}
                /\ recentlyChosenTags = <<<<"#","c">>, <<"#","a">>>>)
                  => allTags = <<CLEAR_TAG, <<"#","a">>, <<"#","c">>, <<"#","b">>>>

\* vault {#a, #b, #c} with recency [#c, #a]
C3_Witness ==
    /\ modalOpen
    /\ Range(vaultKeys) = {<<"#","a">>, <<"#","b">>, <<"#","c">>}
    /\ recentlyChosenTags = <<<<"#","c">>, <<"#","a">>>>
    /\ allTags = <<CLEAR_TAG, <<"#","a">>, <<"#","c">>, <<"#","b">>>>

\* sub occurs in text somewhere, case ignored
ContainsIgnoringCase(text, sub) ==
    \E s \in 0..(Len(text) - Len(sub)) :
        \A c \in 1..Len(sub) : ToLowerChar(text[s + c]) = ToLowerChar(sub[c])

\* the entries of q at the positions in at, in the order of q
EntriesAt(q, at) ==
    [p \in 1..Cardinality(at) |->
        q[CHOOSE i \in at : Cardinality({ j \in at : j < i }) = p - 1]]

\* C4: an empty query gives the catalog unchanged; any other query gives the
\* catalog's tags that contain it, case ignored, in catalog order, with the
\* sentinel in front exactly when the lower-cased query is part of 'clear',
\* 'remove' or 'delete'.
C4_FilterResult ==
    modalOpen =>
        IF query = << >> THEN suggestions = allTags /\ suggestions[1] = CLEAR_TAG
        ELSE LET Hit(tag) == tag # CLEAR_TAG /\ ContainsIgnoringCase(tag, query)
                 hits == EntriesAt(allTags, { i \in 1..Len(allTags) : Hit(allTags[i]) })
                 intent == \E w \in Keywords : ContainsIgnoringCase(w, query)
             IN  /\ suggestions = (IF intent THEN <<CLEAR_TAG>> ELSE << >>) \o hits
                 /\ query = QueryDel => suggestions # << >> /\ suggestions[1] = CLEAR_TAG

\* "re" typed: the sentinel, then #Re
C4_Witness ==
    /\ modalOpen
    /\ query = <<"r","e">>
    /\ suggestions = <<CLEAR_TAG, <<"#","R","e">>>>
    /\ Len(allTags) > 2

\* the step is onChooseSuggestion on the sentinel, or on the tag given
ChoosesClear ==
    \E i \in 1..Len(suggestions) : suggestions[i] = CLEAR_TAG /\ onChooseSuggestion(i)

ChoosesTag(tag) ==
    \E i \in 1..Len(suggestions) : suggestions[i] = tag /\ onChooseSuggestion(i)

ChoosesSomeTag ==
    \E i \in 1..Len(suggestions) : suggestions[i] # CLEAR_TAG /\ onChooseSuggestion(i)

\* C5: choosing the CLEAR_TAG sentinel deletes exactly the text of the span
\* (nothing of the tag stays, the text around it is unchanged), puts the
\* cursor at span.from and leaves the recency list as it is; clearing #todo in
\* "x #todo y" gives "x  y" with the cursor where #todo began.
C5_ClearDeletesSpan ==
    [][ChoosesClear =>
          LET width == tagPosition.to - tagPosition.from
          IN  /\ Len(line') = Len(line) - width
              /\ \A c \in 1..tagPosition.from : line'[c] = line[c]
              /\ \A c \in (tagPosition.from + 1)..Len(line') : line'[c] = line[c + width]
              /\ cursor' = tagPosition.from
              /\ recentlyChosenTags' = recentlyChosenTags
              /\ (line = LineX /\ tagPosition = [from |-> 2, to |-> 7])
                    => (line' = LineXCleared /\ cursor' = 2)]_vars

\* #todo was cleared from "x #todo y"
C5_Witness ==
    /\ ~modalOpen
    /\ line = LineXCleared
    /\ cursor = 2

SpanProjectAlpha == [from |-> 4, to |-> 18]

\* C6 as stated: in "See #project/alpha and #todo" with the cursor at column
\* 6 a tag click locates the span of #project/alpha, and choosing #done then
\* gives "See #done and #todo" with the cursor at column 10.
C6_ScenarioCursorAtTen ==
    /\ [](modalOpen /\ line = LineSee /\ cursor = 6 => tagPosition = SpanProjectAlpha)
    /\ [][(line = LineSee /\ tagPosition = SpanProjectAlpha /\ ChoosesTag(TagDone))
            => (line' = LineSeeDone /\ cursor' = 10)]_vars

\* C6 as amended: the same, with the cursor at column 9, right behind #done.
C6_ScenarioCursorAtNine ==
    /\ [](modalOpen /\ line = LineSee /\ cursor = 6 => tagPosition = SpanProjectAlpha)
    /\ [][(line = LineSee /\ tagPosition = SpanProjectAlpha /\ ChoosesTag(TagDone))
            => (line' = LineSeeDone /\ cursor' = 9)]_vars

\* #done was chosen for #project/alpha as the first selection
C6_Witness ==
    /\ ~modalOpen
    /\ line = LineSeeDone
    /\ cursor = 9
    /\ recentlyChosenTags = <<TagDone>>

\* C7 as stated: the recency list changes only in a step that is a
\* replacement by a tag; every other step leaves it as it is.
C7_OnlyReplacementChangesRecency ==
    [][recentlyChosenTags' # recentlyChosenTags => ChoosesSomeTag]_vars

\* C7 as amended: the recency list changes only in a step that is a
\* replacement by a tag or the settings tab's clear button.
C7_OnlyReplacementOrButtonChangesRecency ==
    [][recentlyChosenTags' # recentlyChosenTags
          => (ChoosesSomeTag \/ ClearRecentButton)]_vars

\* #done replaced #todo and was recorded, then the sentinel was chosen
C7_Witness ==
    /\ ~modalOpen
    /\ line = LineXCleared
    /\ recentlyChosenTags = <<TagDone>>

\* C9: a click is intercepted, its default behaviour suppressed, only when
\* its target is tag-like and an active editor exists.
C9_InterceptedOnlyWithEditor ==
    [][((\E element \in Elements : DomClick(element)) /\ evt'.defaultPrevented)
          => (evt'.tagLike /\ activeView)]_vars

====
